---- MODULE Spec2Model ----
(***************************************************************************)
(* Slot-booking core of the mechanic booking backend: the slot grid        *)
(* generator, the availability seeder, BookingService.create_booking and   *)
(* the booking lifecycle handlers, over a document store whose             *)
(* transactions are atomic and reject a read issued after a write.         *)
(***************************************************************************)
EXTENDS Integers, Sequences, FiniteSets, TLC

(***************************************************************************)
(* Bounds of the model.                                                    *)
(***************************************************************************)
NumReq == 2
NumDays == 1
NumSeed == 2
MaxOps == 2

(***************************************************************************)
(* Time strings.  A time string is a sequence of characters; a datetime    *)
(* keeps the minutes since midnight.                                       *)
(***************************************************************************)
Digits == <<"0", "1", "2", "3", "4", "5", "6", "7", "8", "9">>

IsDigit(c) == \E i \in 1..10 : Digits[i] = c

DigitVal(c) == (CHOOSE i \in 1..10 : Digits[i] = c) - 1

ParseError == 0 - 1

\* The value of a field of one or two decimal digits, ParseError otherwise.
FieldVal(s) ==
    IF Len(s) = 1 /\ IsDigit(s[1]) THEN DigitVal(s[1])
    ELSE IF Len(s) = 2 /\ IsDigit(s[1]) /\ IsDigit(s[2])
         THEN 10 * DigitVal(s[1]) + DigitVal(s[2])
         ELSE ParseError

\* datetime.strptime(s, "%H:%M"): minutes since midnight, ParseError for ValueError.
Strptime(s) ==
    LET colons == {p \in 1..Len(s) : s[p] = ":"}
    IN  IF Cardinality(colons) # 1 THEN ParseError
        ELSE LET p == CHOOSE q \in colons : TRUE
                 h == FieldVal(SubSeq(s, 1, p - 1))
                 m == FieldVal(SubSeq(s, p + 1, Len(s)))
             IN  IF h = ParseError \/ m = ParseError \/ h > 23 \/ m > 59
                 THEN ParseError
                 ELSE 60 * h + m

\* dt.strftime("%H:%M") of a time given in minutes since midnight.
Strftime(t) ==
    LET h == (t \div 60) % 24
        m == t % 60
    IN  <<Digits[(h \div 10) + 1], Digits[(h % 10) + 1], ":",
          Digits[(m \div 10) + 1], Digits[(m % 10) + 1]>>

(***************************************************************************)
(* Slot grid generator.                                                    *)
(***************************************************************************)
DefaultGranularity == 15

EmptyMap == [k \in {} |-> "free"]

\* slots[key] = val
MapSet(map, key, val) ==
    [k \in (DOMAIN map) \cup {key} |-> IF k = key THEN val ELSE map[k]]

\* dict.get(key): "none" stands for None
MapGet(map, key) == IF key \in DOMAIN map THEN map[key] ELSE "none"

\* A loop that also takes the key at end_time.
RECURSIVE BuildLoopInclusive(_, _, _, _)
BuildLoopInclusive(current, end_dt, g, slots) ==
    IF current <= end_dt
    THEN BuildLoopInclusive(current + g, end_dt, g, MapSet(slots, Strftime(current), "free"))
    ELSE slots

RECURSIVE BuildLoop(_, _, _, _)
BuildLoop(current, end_dt, g, slots) ==
    IF current < end_dt
    THEN BuildLoop(current + g, end_dt, g, MapSet(slots, Strftime(current), "free"))
    ELSE slots

\* A generator that rejects an end before the start only.
build_slots_allow_equal(start_time, end_time, g) ==
    LET start_dt == Strptime(start_time)
        end_dt == Strptime(end_time)
    IN  IF start_dt = ParseError \/ end_dt = ParseError
        THEN [ok |-> FALSE, slots |-> EmptyMap]
        ELSE IF end_dt < start_dt
             THEN [ok |-> FALSE, slots |-> EmptyMap]
             ELSE [ok |-> TRUE, slots |-> BuildLoop(start_dt, end_dt, g, EmptyMap)]

build_slots(start_time, end_time, g) ==
    LET start_dt == Strptime(start_time)
        end_dt == Strptime(end_time)
    IN  IF start_dt = ParseError \/ end_dt = ParseError
        THEN [ok |-> FALSE, slots |-> EmptyMap]
        ELSE IF end_dt <= start_dt
             THEN [ok |-> FALSE, slots |-> EmptyMap]
             ELSE [ok |-> TRUE, slots |-> BuildLoop(start_dt, end_dt, g, EmptyMap)]

\* The time strings build_slots is called with: well-formed ones and malformed ones.
TimeStrings ==
    { <<"0", "8", ":", "0", "0">>, <<"0", "9", ":", "0", "0">>,
      <<"1", "0", ":", "4", "5">>, <<"1", "2", ":", "0", "0">>,
      <<"1", "7", ":", "0", "0">>, <<"9", ":", "0", "0">>,
      <<"2", "4", ":", "0", "0">>, <<"0", "9", "0", "0">>,
      <<"0", "9", ":", "6", "0">>, <<"0", "9", ":", "0">>, << >> }

\* The granularities build_slots is called with, in minutes.
Granularities == {15, 30, 60}

(***************************************************************************)
(* Static collections: services and active mechanics with their weekly    *)
(* schedules.  Days 1..NumDays are the first days of the seeded week.      *)
(***************************************************************************)
Days == 1..NumDays

Services == {"oil"}

ServiceMinutes(service_id) == 30

\* Active mechanics in the order the mechanics query streams them.
Mechanics == <<"m1", "m2", "m3">>

MechanicIds == {Mechanics[i] : i \in 1..Len(Mechanics)}

NoTime == << >>

NoEntry == [present |-> FALSE, start |-> NoTime, end |-> NoTime]

\* getattr(mech.schedule, weekday): NoEntry when the day has no entry.
Schedule(mech, day) ==
    IF mech = "m1"
    THEN [present |-> TRUE, start |-> <<"0", "9", ":", "0", "0">>,
          end |-> <<"0", "9", ":", "3", "0">>]
    ELSE IF mech = "m2"
         THEN IF day % 2 = 1
              THEN [present |-> TRUE, start |-> <<"0", "9", ":", "3", "0">>,
                    end |-> <<"1", "0", ":", "0", "0">>]
              ELSE NoEntry
         ELSE [present |-> TRUE, start |-> <<"0", "9", ":", "0", "0">>, end |-> NoTime]

\* not day_sched or not day_sched.start or not day_sched.end
NoSchedule(mech, day) ==
    LET day_sched == Schedule(mech, day)
    IN  ~day_sched.present \/ day_sched.start = NoTime \/ day_sched.end = NoTime

\* Authenticated principals: email and role.
Users == {"alice", "bob", "admin", "mech"}

Role(user) ==
    IF user = "admin" THEN "admin" ELSE IF user = "mech" THEN "mechanic" ELSE "customer"

\* The customer a create request is made by.
Customer(r) == IF r % 2 = 1 THEN "alice" ELSE "bob"

\* Requested start times, minutes since midnight: 09:00 and 09:30.
StartTimes == {540, 570}

(***************************************************************************)
(* State.                                                                  *)
(***************************************************************************)
VARIABLES
    avail,      \* availability collection: day -> day record
    bookings,   \* bookings collection: document id (index) -> booking
    req,        \* create-booking requests in flight
    seed,       \* seeding runs in flight (prior: non-dry runs complete when it began;
                \* txn_created, txn_updated: merge transactions committed so far)
    ops,        \* lifecycle requests served so far
    last,       \* the handler step taken last and its outcome
    journey,    \* per booking: how far along create, approve, cancel it is
    call,       \* the last direct call of build_slots: its arguments and its result
    scheduled   \* the background tasks the handler step taken last has scheduled

vars == <<avail, bookings, req, seed, ops, last, journey, call, scheduled>>

\* No direct call of build_slots has been made.
NoCall ==
    [made |-> FALSE, start_time |-> NoTime, end_time |-> NoTime, given |-> FALSE,
     g |-> 0, ok |-> FALSE, slots |-> EmptyMap]

NoDoc == [exists |-> FALSE, slots |-> EmptyMap, mechanics |-> {}]

IdleReq ==
    [pc |-> "idle", date |-> 0, start |-> 0, service |-> "", zip_ok |-> TRUE,
     mechanic_id |-> "", bid |-> 0, attempt |-> 0, res |-> "", out_status |-> ""]

IdleSeed ==
    [pc |-> "idle", i |-> 0, dry_run |-> FALSE, created |-> 0, updated |-> 0,
     skipped |-> 0, attempt |-> 0, prior |-> 0, txn_created |-> 0, txn_updated |-> 0]

Init ==
    /\ avail = [d \in Days |-> NoDoc]
    /\ bookings = << >>
    /\ req = [r \in 1..NumReq |-> IdleReq]
    /\ seed = [s \in 1..NumSeed |-> IdleSeed]
    /\ ops = 0
    /\ last = [op |-> "init", b |-> 0, res |-> ""]
    /\ journey = << >>
    /\ call = NoCall
    /\ scheduled = {}

SlotKey(booking) == Strftime(booking.start)

(***************************************************************************)
(* Direct calls of the slot grid generator.                                *)
(***************************************************************************)
\* build_slots(start_time, end_time) or build_slots(start_time, end_time, g).
BuildSlots(start_time, end_time, given, g) ==
    /\ ~call.made
    /\ LET built == build_slots(start_time, end_time,
                                IF given THEN g ELSE DefaultGranularity)
       IN  call' = [made |-> TRUE, start_time |-> start_time, end_time |-> end_time,
                    given |-> given, g |-> IF given THEN g ELSE 0,
                    ok |-> built.ok, slots |-> built.slots]
    /\ UNCHANGED <<avail, bookings, req, seed, ops, last, journey, scheduled>>

(***************************************************************************)
(* Availability seeder.                                                    *)
(***************************************************************************)
\* A merge that writes every generated key, whatever the existing value.
MergeSlotsOverwrite(merged_slots, slot_map) ==
    [k \in (DOMAIN merged_slots) \cup (DOMAIN slot_map) |->
        IF k \in DOMAIN slot_map THEN slot_map[k] ELSE merged_slots[k]]

\* The merge loop: a generated key is written unless the existing value is booked.
MergeSlots(merged_slots, slot_map) ==
    [k \in (DOMAIN merged_slots) \cup (DOMAIN slot_map) |->
        IF k \in DOMAIN slot_map /\ MapGet(merged_slots, k) \in {"none", "free", "blocked"}
        THEN slot_map[k]
        ELSE merged_slots[k]]

\* A transaction body whose update branch replaces the day's mechanic set.
update_availability_reset_mechanics(snap, slot_map, mech_id) ==
    IF ~snap.exists
    THEN [doc |-> [exists |-> TRUE, slots |-> slot_map, mechanics |-> {mech_id}],
          created |-> TRUE, updated |-> FALSE]
    ELSE [doc |-> [exists |-> TRUE, slots |-> MergeSlots(snap.slots, slot_map),
                   mechanics |-> {mech_id}],
          created |-> FALSE, updated |-> TRUE]

\* A transaction body whose update branch leaves the day's mechanic set alone.
update_availability_keep_mechanics(snap, slot_map, mech_id) ==
    IF ~snap.exists
    THEN [doc |-> [exists |-> TRUE, slots |-> slot_map, mechanics |-> {mech_id}],
          created |-> TRUE, updated |-> FALSE]
    ELSE [doc |-> [exists |-> TRUE, slots |-> MergeSlots(snap.slots, slot_map),
                   mechanics |-> snap.mechanics],
          created |-> FALSE, updated |-> TRUE]

\* A transaction body that reports every write as a creation.
update_availability_counts_created(snap, slot_map, mech_id) ==
    IF ~snap.exists
    THEN [doc |-> [exists |-> TRUE, slots |-> slot_map, mechanics |-> {mech_id}],
          created |-> TRUE, updated |-> FALSE]
    ELSE [doc |-> [exists |-> TRUE, slots |-> MergeSlots(snap.slots, slot_map),
                   mechanics |-> snap.mechanics \cup {mech_id}],
          created |-> TRUE, updated |-> FALSE]

\* A transaction body that sets the generated document over an existing one.
update_availability_always_set(snap, slot_map, mech_id) ==
    [doc |-> [exists |-> TRUE, slots |-> slot_map, mechanics |-> {mech_id}],
     created |-> ~snap.exists, updated |-> snap.exists]

\* The transaction body: the document written, and the (created, updated) flags.
update_availability_in_transaction(snap, slot_map, mech_id) ==
    IF ~snap.exists
    THEN [doc |-> [exists |-> TRUE, slots |-> slot_map, mechanics |-> {mech_id}],
          created |-> TRUE, updated |-> FALSE]
    ELSE [doc |-> [exists |-> TRUE, slots |-> MergeSlots(snap.slots, slot_map),
                   mechanics |-> snap.mechanics \cup {mech_id}],
          created |-> FALSE, updated |-> TRUE]

NumPairs == Len(Mechanics) * NumDays

PairMech(i) == Mechanics[((i - 1) \div NumDays) + 1]

PairDay(i) == ((i - 1) % NumDays) + 1

Advance(run) ==
    IF run.i = NumPairs THEN [run EXCEPT !.pc = "done"] ELSE [run EXCEPT !.i = @ + 1]

\* The attempts tenacity makes of the seed endpoint.
SeedMaxAttempts == 5

\* A loop iteration that skips on the schedule entry alone.
SkipsScheduleOnly(run, mech, day) == NoSchedule(mech, day)

\* The two `continue` tests of a loop iteration: no complete entry, or a dry run.
Skips(run, mech, day) == NoSchedule(mech, day) \/ run.dry_run

\* POST /availability/seed arrives: the mechanics are read and the week is fixed.
SeedBegin(s, dry_run) ==
    /\ seed[s].pc = "idle"
    /\ seed' = [seed EXCEPT ![s] =
                    [IdleSeed EXCEPT !.pc = "run", !.i = 1, !.dry_run = dry_run,
                                     !.attempt = 1,
                                     !.prior = Cardinality({t \in 1..NumSeed :
                                         seed[t].pc = "done" /\ ~seed[t].dry_run})]]
    /\ last' = [op |-> "seed_begin", b |-> 0, res |-> ""]
    /\ UNCHANGED <<avail, bookings, req, ops, journey, call>>
    /\ scheduled' = {}

\* One iteration of the loop over (mechanic, day): skip, or one merge transaction.
SeedStep(s) ==
    /\ seed[s].pc = "run"
    /\ LET run == seed[s]
           mech == PairMech(run.i)
           day == PairDay(run.i)
           day_sched == Schedule(mech, day)
       IN  IF Skips(run, mech, day)
           THEN /\ seed' = [seed EXCEPT ![s] = Advance([run EXCEPT !.skipped = @ + 1])]
                /\ last' = [op |-> "seed", b |-> 0, res |-> "skipped"]
                /\ UNCHANGED avail
           ELSE LET built == build_slots(day_sched.start, day_sched.end, DefaultGranularity)
                    out == update_availability_in_transaction(avail[day], built.slots, mech)
                IN  IF ~built.ok
                    THEN /\ seed' = [seed EXCEPT ![s] = [run EXCEPT !.pc = "failed"]]
                         /\ last' = [op |-> "seed", b |-> 0, res |-> "error"]
                         /\ UNCHANGED avail
                    ELSE /\ avail' = [avail EXCEPT ![day] = out.doc]
                         /\ seed' = [seed EXCEPT ![s] = Advance(
                                [run EXCEPT !.created = @ + (IF out.created THEN 1 ELSE 0),
                                            !.updated = @ + (IF out.updated THEN 1 ELSE 0),
                                            !.txn_created = @ + (IF out.created THEN 1 ELSE 0),
                                            !.txn_updated = @ + (IF out.updated THEN 1 ELSE 0)])]
                         /\ last' = [op |-> "seed", b |-> day,
                                     res |-> IF out.created THEN "created" ELSE "updated"]
    /\ UNCHANGED <<bookings, req, ops, journey, call>>
    /\ scheduled' = {}

\* The merge transaction of the current pair fails with ServiceUnavailable: the
\* exception leaves the endpoint function, and tenacity calls the function again
\* from its first line, or gives up with RetryError after SeedMaxAttempts.
SeedFault(s) ==
    /\ seed[s].pc = "run"
    /\ LET run == seed[s]
           mech == PairMech(run.i)
           day == PairDay(run.i)
       IN  /\ ~Skips(run, mech, day)
           /\ build_slots(Schedule(mech, day).start, Schedule(mech, day).end,
                          DefaultGranularity).ok
           /\ IF run.attempt < SeedMaxAttempts
              THEN /\ seed' = [seed EXCEPT ![s] =
                                  [run EXCEPT !.i = 1, !.created = 0, !.updated = 0,
                                              !.skipped = 0, !.attempt = @ + 1]]
                   /\ last' = [op |-> "seed_fault", b |-> day, res |-> "retry"]
              ELSE /\ seed' = [seed EXCEPT ![s] = [run EXCEPT !.pc = "failed"]]
                   /\ last' = [op |-> "seed_fault", b |-> day, res |-> "RetryError"]
    /\ UNCHANGED <<avail, bookings, req, ops, journey, call>>
    /\ scheduled' = {}

(***************************************************************************)
(* Booking engine: BookingService.create_booking.                          *)
(***************************************************************************)
MaxAttempts == 3

\* The mechanics whose generated grid for the day holds the key.
Contributors(date, key) ==
    {m \in MechanicIds :
        /\ ~NoSchedule(m, date)
        /\ LET built == build_slots(Schedule(m, date).start, Schedule(m, date).end,
                                    DefaultGranularity)
           IN  built.ok /\ key \in DOMAIN built.slots}

\* The occupancy the day's record shows for the key; a key not recorded yet is free.
SlotState(date, key) ==
    IF avail[date].exists /\ key \in DOMAIN avail[date].slots
    THEN avail[date].slots[key]
    ELSE "free"

\* The mechanics validate_availability can return: {} stands for SlotUnavailableError.
validate_availability(date, start) ==
    LET booking_time == Strftime(start)
    IN  IF SlotState(date, booking_time) = "free"
        THEN Contributors(date, booking_time)
        ELSE {}

create_booking_data(r, mechanic_id) ==
    [date |-> req[r].date,
     start |-> req[r].start,
     slot_end |-> req[r].start + ServiceMinutes(req[r].service),
     service |-> req[r].service,
     mechanic_id |-> mechanic_id,
     customer |-> Customer(r),
     status |-> "pending",
     calendar_event_id |-> FALSE,
     requested |-> 0]

\* An update that does not create the day record when it is missing.
update_availability_cache_no_create(booking_data, availability_snapshot) ==
    IF availability_snapshot.exists
    THEN [availability_snapshot EXCEPT
             !.slots = MapSet(availability_snapshot.slots,
                              Strftime(booking_data.start), "booked")]
    ELSE availability_snapshot

\* An update that writes a slots map holding the booked key alone.
update_availability_cache_only_key(booking_data, availability_snapshot) ==
    [exists |-> TRUE,
     slots |-> MapSet(EmptyMap, Strftime(booking_data.start), "booked"),
     mechanics |-> availability_snapshot.mechanics \cup {booking_data.mechanic_id}]

\* An update that leaves an existing day record as it was read.
update_availability_cache_skipped(booking_data, availability_snapshot) ==
    IF availability_snapshot.exists
    THEN availability_snapshot
    ELSE [exists |-> TRUE,
          slots |-> MapSet(EmptyMap, Strftime(booking_data.start), "booked"),
          mechanics |-> {booking_data.mechanic_id}]

\* The day record the transaction writes, from the snapshot read before the writes.
update_availability_cache(booking_data, availability_snapshot) ==
    LET booking_time == Strftime(booking_data.start)
    IN  IF availability_snapshot.exists
        THEN [availability_snapshot EXCEPT
                 !.slots = MapSet(availability_snapshot.slots, booking_time, "booked")]
        ELSE [exists |-> TRUE,
              slots |-> MapSet(EmptyMap, booking_time, "booked"),
              mechanics |-> IF booking_data.mechanic_id # "" THEN {booking_data.mechanic_id}
                            ELSE {}]

\* The query of the transaction: pending or confirmed bookings with this slot_start.
ExistingBookings(date, start) ==
    {b \in 1..Len(bookings) :
        /\ bookings[b].date = date
        /\ bookings[b].start = start
        /\ bookings[b].status \in {"pending", "confirmed"}}

\* A conflict check against the mechanic_id of the payload as it arrived (None).
HasConflictPayload(date, start, mechanic_id) ==
    \E b \in ExistingBookings(date, start) : bookings[b].mechanic_id = ""

HasConflict(date, start, mechanic_id) ==
    \E b \in ExistingBookings(date, start) : bookings[b].mechanic_id = mechanic_id

\* An attempt that goes on to the availability check without looking the service up.
ResolveNoServiceCheck(r, rq) ==
    IF ~rq.zip_ok
    THEN /\ req' = [req EXCEPT ![r] = [IdleReq EXCEPT !.pc = "done", !.res = "bad_request"]]
         /\ last' = [op |-> "resolve", b |-> 0, res |-> "bad_request"]
    ELSE IF validate_availability(rq.date, rq.start) = {}
    THEN /\ req' = [req EXCEPT ![r] = [rq EXCEPT !.pc = "done", !.res = "conflict"]]
         /\ last' = [op |-> "resolve", b |-> 0, res |-> "conflict"]
    ELSE \E m \in validate_availability(rq.date, rq.start) :
            /\ req' = [req EXCEPT ![r] = [rq EXCEPT !.pc = "txn", !.mechanic_id = m]]
            /\ last' = [op |-> "resolve", b |-> 0, res |-> "ok"]

\* Steps 1 to 3 of an attempt: service area, service lookup, availability.
Resolve(r, rq) ==
    IF ~rq.zip_ok
    THEN /\ req' = [req EXCEPT ![r] = [IdleReq EXCEPT !.pc = "done", !.res = "bad_request"]]
         /\ last' = [op |-> "resolve", b |-> 0, res |-> "bad_request"]
    ELSE IF rq.service \notin Services
    THEN /\ req' = [req EXCEPT ![r] = [IdleReq EXCEPT !.pc = "done", !.res = "not_found"]]
         /\ last' = [op |-> "resolve", b |-> 0, res |-> "not_found"]
    ELSE IF validate_availability(rq.date, rq.start) = {}
    THEN /\ req' = [req EXCEPT ![r] = [rq EXCEPT !.pc = "done", !.res = "conflict"]]
         /\ last' = [op |-> "resolve", b |-> 0, res |-> "conflict"]
    ELSE \E m \in validate_availability(rq.date, rq.start) :
            /\ req' = [req EXCEPT ![r] = [rq EXCEPT !.pc = "txn", !.mechanic_id = m]]
            /\ last' = [op |-> "resolve", b |-> 0, res |-> "ok"]

\* POST /bookings arrives and the first attempt runs up to the transaction.
CreateBegin(r, date, start, service, zip_ok) ==
    /\ req[r].pc = "idle"
    /\ Resolve(r, [IdleReq EXCEPT !.date = date, !.start = start, !.service = service,
                                  !.zip_ok = zip_ok, !.attempt = 1])
    /\ UNCHANGED <<avail, bookings, seed, ops, journey, call>>
    /\ scheduled' = {}

\* The transaction txn: the conflict query, then the booking and the day record.
CreateTxn(r) ==
    /\ req[r].pc = "txn"
    /\ IF HasConflict(req[r].date, req[r].start, req[r].mechanic_id)
       THEN /\ req' = [req EXCEPT ![r].pc = "done", ![r].res = "conflict"]
            /\ last' = [op |-> "create", b |-> 0, res |-> "conflict"]
            /\ UNCHANGED <<avail, bookings, journey>>
       ELSE LET booking_data == create_booking_data(r, req[r].mechanic_id)
            IN  /\ bookings' = Append(bookings, booking_data)
                /\ avail' = [avail EXCEPT ![booking_data.date] =
                                update_availability_cache(booking_data, avail[booking_data.date])]
                /\ journey' = Append(journey, "created")
                /\ req' = [req EXCEPT ![r].pc = "committed", ![r].bid = Len(bookings) + 1]
                /\ last' = [op |-> "create", b |-> Len(bookings) + 1, res |-> "ok"]
    /\ UNCHANGED <<seed, ops, call>>
    /\ scheduled' = {}

\* Steps 6 and 7: the booking is read back for the response, the calendar event is
\* created best effort and its id stored on the booking; the request returns.
CreateFinish(r, synced) ==
    /\ req[r].pc = "committed"
    /\ bookings' = IF synced
                   THEN [bookings EXCEPT ![req[r].bid].calendar_event_id = TRUE]
                   ELSE bookings
    /\ req' = [req EXCEPT ![r].pc = "done", ![r].res = "ok",
                          ![r].out_status = bookings[req[r].bid].status]
    /\ last' = [op |-> "finish", b |-> req[r].bid, res |-> IF synced THEN "ok" ELSE "failed"]
    /\ scheduled' = {[kind |-> "created", b |-> req[r].bid]}
    /\ UNCHANGED <<avail, seed, ops, journey, call>>

\* A retry configuration that allows one attempt more than stop_after_attempt(3).
CreateTxnFaultExtra(r) ==
    /\ req[r].pc = "txn"
    /\ IF req[r].attempt < MaxAttempts + 1
       THEN Resolve(r, [req[r] EXCEPT !.attempt = @ + 1, !.mechanic_id = ""])
       ELSE /\ req' = [req EXCEPT ![r].pc = "done", ![r].res = "error"]
            /\ last' = [op |-> "create", b |-> 0, res |-> "error"]
    /\ UNCHANGED <<avail, bookings, seed, ops, journey, call>>
    /\ scheduled' = {}

\* The transaction raises ServiceUnavailable: nothing is written; tenacity runs the
\* next attempt, or lets the error through after the last one.
CreateTxnFault(r) ==
    /\ req[r].pc = "txn"
    /\ IF req[r].attempt < MaxAttempts
       THEN Resolve(r, [req[r] EXCEPT !.attempt = @ + 1, !.mechanic_id = ""])
       ELSE /\ req' = [req EXCEPT ![r].pc = "done", ![r].res = "error"]
            /\ last' = [op |-> "create", b |-> 0, res |-> "error"]
    /\ UNCHANGED <<avail, bookings, seed, ops, journey, call>>
    /\ scheduled' = {}

\* Step 7 when create_event raises an exception that is not a GoogleAPIError
\* (HttpError of the calendar client, KeyError of the credentials path): the
\* except clause does not match, tenacity does not retry it, and the router answers
\* 500; the committed booking and its slot stay as they are.
CreateCalendarFault(r) ==
    /\ req[r].pc = "committed"
    /\ req' = [req EXCEPT ![r].pc = "done", ![r].res = "error",
                          ![r].out_status = bookings[req[r].bid].status]
    /\ last' = [op |-> "finish", b |-> req[r].bid, res |-> "error"]
    /\ UNCHANGED <<avail, bookings, seed, ops, journey, call>>
    /\ scheduled' = {}

\* Step 6 when the read-back of the committed booking raises ServiceUnavailable:
\* the exception leaves create_booking, and tenacity runs the whole function
\* again from the service area check, or lets the error through after the last
\* attempt; the committed booking and its slot stay as they are.
CreateReadBackFault(r) ==
    /\ req[r].pc = "committed"
    /\ IF req[r].attempt < MaxAttempts
       THEN Resolve(r, [req[r] EXCEPT !.attempt = @ + 1, !.mechanic_id = ""])
       ELSE /\ req' = [req EXCEPT ![r].pc = "done", ![r].res = "error"]
            /\ last' = [op |-> "finish", b |-> req[r].bid, res |-> "error"]
    /\ UNCHANGED <<avail, bookings, seed, ops, journey, call>>
    /\ scheduled' = {}

(***************************************************************************)
(* Booking lifecycle manager.                                              *)
(***************************************************************************)
\* The store raises ReadAfterWriteError for a read issued after a write of the
\* same transaction, and the transaction is rolled back.
ReadAfterWrite(trace) ==
    \E i \in 1..Len(trace) : \E j \in 1..Len(trace) :
        i < j /\ trace[i] = "write" /\ trace[j] = "read"

\* The document operations update_approval_txn issues, in order.
update_approval_txn(approved) ==
    IF approved
    THEN <<"read", "write">>
    ELSE <<"read", "write", "read", "write">>

\* The document operations cancel_booking_txn issues, in order.
cancel_booking_txn ==
    <<"read", "read", "write", "write">>

\* The document operations create_booking's txn issues, in order: the day record,
\* the conflict query, the booking, the day record.
txn == <<"read", "read", "write", "write">>

\* The document operations _update_availability_in_transaction issues, in order.
update_availability_in_transaction_ops == <<"read", "write">>

\* The document operations request_reschedule_txn issues, in order.
request_reschedule_txn_ops == <<"read", "write">>

\* The document operations update_status_txn issues, in order.
update_status_txn == <<"read", "write">>

\* A release that leaves the day record as it is.
ReleaseSlotSkipped(doc, slot_time) == doc

\* slots[slot_time] = free, only if the slot is currently booked.
ReleaseSlot(doc, slot_time) ==
    IF doc.exists /\ MapGet(doc.slots, slot_time) = "booked"
    THEN [doc EXCEPT !.slots = MapSet(doc.slots, slot_time, "free")]
    ELSE doc

Exists(b) == b \in 1..Len(bookings)

BookingIds == 1..(Len(bookings) + 1)

Served(op, b, res) ==
    /\ ops' = ops + 1
    /\ last' = [op |-> op, b |-> b, res |-> res]

\* The calendar deletion the handlers schedule when the booking has an event id.
DeleteEvent(b) ==
    IF bookings[b].calendar_event_id THEN {[kind |-> "delete_event", b |-> b]} ELSE {}

\* A failing request that schedules a notification all the same.
RejectedNotifying(op, b, res) ==
    /\ Served(op, b, res)
    /\ scheduled' = {[kind |-> op, b |-> b]}
    /\ UNCHANGED <<avail, bookings, journey>>

\* The request fails with an HTTP error before or inside its transaction.
Rejected(op, b, res) ==
    /\ Served(op, b, res)
    /\ scheduled' = {}
    /\ UNCHANGED <<avail, bookings, journey>>

\* POST /bookings/{id}/approval
Approve(b, approved, user) ==
    /\ ops < MaxOps
    /\ LET op == IF approved THEN "approve" ELSE "deny"
       IN  IF Role(user) \notin {"mechanic", "admin"} THEN Rejected(op, b, "forbidden")
           ELSE IF ~Exists(b) THEN Rejected(op, b, "not_found")
           ELSE IF ReadAfterWrite(update_approval_txn(approved)) THEN Rejected(op, b, "error")
           ELSE /\ bookings' = [bookings EXCEPT ![b].status =
                                   IF approved THEN "confirmed" ELSE "denied"]
                /\ avail' = IF approved THEN avail
                            ELSE [avail EXCEPT ![bookings[b].date] =
                                     ReleaseSlot(avail[bookings[b].date], SlotKey(bookings[b]))]
                /\ journey' = [journey EXCEPT ![b] =
                                  IF approved /\ journey[b] = "created" THEN "approved"
                                  ELSE "off"]
                /\ scheduled' = IF approved
                                THEN {[kind |-> "approval", b |-> b]}
                                ELSE DeleteEvent(b) \cup {[kind |-> "denial", b |-> b]}
                /\ Served(op, b, "ok")
    /\ UNCHANGED <<req, seed, call>>

\* A permission check that lets every caller through.
MayCancelAnyone(user, booking) == TRUE

\* Only the booking owner or an admin can cancel.
MayCancel(user, booking) == Role(user) = "admin" \/ booking.customer = user

\* A status check that lets every status through.
CancelableAlways(status) == TRUE

\* The statuses a booking can be cancelled or rescheduled from.
Cancelable(status) == status \in {"pending", "confirmed"}

\* POST /bookings/{id}/cancel
Cancel(b, user) ==
    /\ ops < MaxOps
    /\ IF ~Exists(b) THEN Rejected("cancel", b, "not_found")
       ELSE IF ~MayCancel(user, bookings[b])
            THEN Rejected("cancel", b, "forbidden")
       ELSE IF ~Cancelable(bookings[b].status)
            THEN Rejected("cancel", b, "invalid_state")
       ELSE IF ReadAfterWrite(cancel_booking_txn) THEN Rejected("cancel", b, "error")
       ELSE /\ bookings' = [bookings EXCEPT ![b].status = "cancelled"]
            /\ avail' = [avail EXCEPT ![bookings[b].date] =
                            ReleaseSlot(avail[bookings[b].date], SlotKey(bookings[b]))]
            /\ journey' = [journey EXCEPT ![b] =
                              IF journey[b] = "approved" THEN "cancelled" ELSE "off"]
            /\ scheduled' = DeleteEvent(b) \cup {[kind |-> "cancellation", b |-> b]}
            /\ Served("cancel", b, "ok")
    /\ UNCHANGED <<req, seed, call>>

\* A transaction body that also books the preferred slot in the day's record.
request_reschedule_txn_reserving(b, preferred) ==
    [bookings |-> [bookings EXCEPT ![b].status = "reschedule-requested",
                                   ![b].requested = preferred],
     avail |-> [avail EXCEPT ![bookings[b].date].slots =
                   MapSet(@, Strftime(preferred), "booked")]]

\* The writes of request_reschedule_txn: the booking document alone.
request_reschedule_txn(b, preferred) ==
    [bookings |-> [bookings EXCEPT ![b].status = "reschedule-requested",
                                   ![b].requested = preferred],
     avail |-> avail]

\* POST /bookings/{id}/reschedule
RequestReschedule(b, preferred, user) ==
    /\ ops < MaxOps
    /\ IF ~Exists(b) THEN Rejected("reschedule", b, "not_found")
       ELSE IF bookings[b].customer # user THEN Rejected("reschedule", b, "forbidden")
       ELSE IF ~Cancelable(bookings[b].status)
            THEN Rejected("reschedule", b, "invalid_state")
       ELSE /\ bookings' = request_reschedule_txn(b, preferred).bookings
            /\ avail' = request_reschedule_txn(b, preferred).avail
            /\ journey' = [journey EXCEPT ![b] = "off"]
            /\ scheduled' = {[kind |-> "reschedule_request", b |-> b]}
            /\ Served("reschedule", b, "ok")
    /\ UNCHANGED <<req, seed, call>>

\* The values of the BookingStatus enumeration.
BookingStatus ==
    {"pending", "confirmed", "completed", "cancelled", "denied", "no-show",
     "reschedule-requested"}

\* The status strings a status patch is tried with: lifecycle values and another.
StatusInputs == {"pending", "confirmed", "completed", "denied", "archived"}

\* PATCH /bookings/{id}/status
UpdateBookingStatus(b, status, user) ==
    /\ ops < MaxOps
    /\ IF Role(user) # "admin" THEN Rejected("patch", b, "forbidden")
       ELSE IF ~Exists(b) THEN Rejected("patch", b, "not_found")
       ELSE /\ bookings' = [bookings EXCEPT ![b].status = status]
            /\ journey' = [journey EXCEPT ![b] = "off"]
            /\ scheduled' = {}
            /\ Served("patch", b, "ok")
            /\ UNCHANGED avail
    /\ UNCHANGED <<req, seed, call>>

(***************************************************************************)
(* Specifications.                                                         *)
(***************************************************************************)
Booking ==
    \E r \in 1..NumReq :
        \/ \E date \in Days, start \in StartTimes, service \in Services \cup {"nosuch"},
              zip_ok \in BOOLEAN : CreateBegin(r, date, start, service, zip_ok)
        \/ CreateTxn(r)
        \/ \E synced \in BOOLEAN : CreateFinish(r, synced)

Seeding ==
    \E s \in 1..NumSeed :
        \/ \E dry_run \in BOOLEAN : SeedBegin(s, dry_run)
        \/ SeedStep(s)

Lifecycle ==
    \E b \in BookingIds, user \in Users :
        \/ \E approved \in BOOLEAN : Approve(b, approved, user)
        \/ Cancel(b, user)
        \/ \E preferred \in StartTimes : RequestReschedule(b, preferred, user)
        \/ \E status \in StatusInputs : UpdateBookingStatus(b, status, user)

Faults == \E r \in 1..NumReq : CreateTxnFault(r)

Next == Booking \/ Seeding \/ Lifecycle

Spec == Init /\ [][Next]_vars

\* Seeding runs racing with booking requests, from the empty store.
NextSeeding == Booking \/ Seeding

SpecSeeding == Init /\ [][NextSeeding]_vars

\* Seeding runs alone, from the empty store.
SpecSeedOnly == Init /\ [][Seeding]_vars

\* Seeding runs whose merge transactions may hit a transient storage error.
SeedFaults == \E s \in 1..NumSeed : SeedFault(s)

NextSeedFaults == Seeding \/ SeedFaults

SpecSeedFaults == Init /\ [][NextSeedFaults]_vars

\* The store after one complete seeding run of the week, no request in flight.
RECURSIVE SeededDoc(_, _)
SeededDoc(day, n) ==
    IF n = 0 THEN NoDoc
    ELSE LET mech == Mechanics[n]
             doc == SeededDoc(day, n - 1)
         IN  IF NoSchedule(mech, day) THEN doc
             ELSE update_availability_in_transaction(
                      doc,
                      build_slots(Schedule(mech, day).start, Schedule(mech, day).end,
                                  DefaultGranularity).slots,
                      mech).doc

InitSeeded ==
    /\ avail = [d \in Days |-> SeededDoc(d, Len(Mechanics))]
    /\ bookings = << >>
    /\ req = [r \in 1..NumReq |-> IdleReq]
    /\ seed = [s \in 1..NumSeed |-> IdleSeed]
    /\ ops = 0
    /\ last = [op |-> "init", b |-> 0, res |-> ""]
    /\ journey = << >>
    /\ call = NoCall
    /\ scheduled = {}

\* Booking requests alone on the seeded week.
SpecBooking == InitSeeded /\ [][Booking]_vars

\* Booking requests whose transaction may hit a transient storage error.
NextFaults == Booking \/ Faults

SpecFaults == InitSeeded /\ [][NextFaults]_vars

\* A request in flight keeps running: its transaction ends (commit, conflict or
\* transient error) and its follow-up steps end.
FairFaults ==
    \A r \in 1..NumReq :
        /\ WF_vars(CreateTxn(r) \/ CreateTxnFault(r))
        /\ WF_vars(\E synced \in BOOLEAN : CreateFinish(r, synced))

SpecFaultsFair == InitSeeded /\ [][NextFaults]_vars /\ FairFaults

\* Booking requests and lifecycle requests on the seeded week.
NextLifecycle == Booking \/ Lifecycle

SpecLifecycle == InitSeeded /\ [][NextLifecycle]_vars

\* A day record in which the slots of the given keys have the value blocked.
BlockedDoc(doc, keys) ==
    [doc EXCEPT !.slots = [k \in DOMAIN doc.slots |->
                              IF k \in keys THEN "blocked" ELSE doc.slots[k]]]

GridKeys == UNION {DOMAIN SeededDoc(d, Len(Mechanics)).slots : d \in Days}

\* The seeded week with any set of slots blocked, no request in flight.
InitBlocked ==
    /\ \E f \in [Days -> SUBSET GridKeys] :
          avail = [d \in Days |-> BlockedDoc(SeededDoc(d, Len(Mechanics)), f[d])]
    /\ bookings = << >>
    /\ req = [r \in 1..NumReq |-> IdleReq]
    /\ seed = [s \in 1..NumSeed |-> IdleSeed]
    /\ ops = 0
    /\ last = [op |-> "init", b |-> 0, res |-> ""]
    /\ journey = << >>
    /\ call = NoCall
    /\ scheduled = {}

\* Seeding runs over a week that holds blocked slots.
SpecBlocked == InitBlocked /\ [][Seeding]_vars

\* Direct calls of build_slots with every pair of time strings.
Slots ==
    \E start_time \in TimeStrings, end_time \in TimeStrings, given \in BOOLEAN,
       g \in Granularities : BuildSlots(start_time, end_time, given, g)

SpecSlots == Init /\ [][Slots]_vars

\* The seeded week after booking 1 (09:00, alice, m1) was created and cancelled:
\* the booking is cancelled, its slot is free again, no request is in flight.
InitReopened ==
    /\ avail = [d \in Days |-> SeededDoc(d, Len(Mechanics))]
    /\ \E synced \in BOOLEAN :
          bookings = <<[date |-> 1, start |-> 540, slot_end |-> 540 + ServiceMinutes("oil"),
                        service |-> "oil", mechanic_id |-> "m1", customer |-> "alice",
                        status |-> "cancelled", calendar_event_id |-> synced,
                        requested |-> 0]>>
    /\ req = [r \in 1..NumReq |-> IdleReq]
    /\ seed = [s \in 1..NumSeed |-> IdleSeed]
    /\ ops = 0
    /\ last = [op |-> "init", b |-> 0, res |-> ""]
    /\ journey = <<"off">>
    /\ call = NoCall
    /\ scheduled = {}

\* Booking requests and lifecycle requests after a first booking was cancelled.
SpecReopened == InitReopened /\ [][NextLifecycle]_vars

\* Booking requests whose transaction and whose post-commit read-back may hit a
\* transient storage error.
ReadBack == \E r \in 1..NumReq : CreateReadBackFault(r)

NextReadBack == Booking \/ Faults \/ ReadBack

SpecReadBack == InitSeeded /\ [][NextReadBack]_vars

\* Booking requests and lifecycle requests from the empty store.
SpecEmptyLifecycle == Init /\ [][NextLifecycle]_vars

\* Requested start times on the quarter-hour grid of the seeded day: 09:00, 09:15.
GridStartTimes == {540, 555}

\* Booking requests for neighbouring keys of the seeded grid.
GridBooking ==
    \E r \in 1..NumReq :
        \/ \E date \in Days, start \in GridStartTimes, service \in Services :
              CreateBegin(r, date, start, service, TRUE)
        \/ CreateTxn(r)
        \/ \E synced \in BOOLEAN : CreateFinish(r, synced)

SpecGridBooking == InitSeeded /\ [][GridBooking]_vars

\* Booking requests whose calendar call may fail with any exception.
FollowUp == \E r \in 1..NumReq : CreateCalendarFault(r)

NextFollowUp == Booking \/ FollowUp

SpecFollowUp == InitSeeded /\ [][NextFollowUp]_vars

(***************************************************************************)
(* Properties.                                                             *)
(***************************************************************************)
Slot(date, start) == MapGet(avail[date].slots, Strftime(start))

SlotOf(b) == Slot(bookings[b].date, bookings[b].start)

Live(b) == bookings[b].status \in {"pending", "confirmed"}

\* The request got past the service area and service checks with this target.
Targets(r, date, start) ==
    req[r].pc # "idle" /\ req[r].date = date /\ req[r].start = start

\* No request other than r1 and r2 has asked for the slot.
OnlyPair(r1, r2, date, start) ==
    \A r \in 1..NumReq : Targets(r, date, start) => r \in {r1, r2}

RecordsAt(date, start) ==
    {b \in 1..Len(bookings) : bookings[b].date = date /\ bookings[b].start = start}

\* The request returned a pending booking.
Won(r) == req[r].res = "ok" /\ req[r].out_status = "pending"

\* The request failed with SlotUnavailableError and wrote no booking.
Lost(r) == req[r].res = "conflict" /\ req[r].bid = 0

\* C1: of two create_booking requests racing for the same mechanic and slot_start
\* (a slot some mechanic's grid holds), once both have finished exactly one has
\* succeeded with a pending booking and the other has failed with
\* SlotUnavailableError; the slot is booked and one booking record exists for it.
C1_ExactlyOnce ==
    \A r1 \in 1..NumReq : \A r2 \in 1..NumReq :
        ( /\ r1 # r2
          /\ req[r1].pc = "done" /\ req[r2].pc = "done"
          /\ req[r1].date # 0
          /\ Targets(r2, req[r1].date, req[r1].start)
          /\ Contributors(req[r1].date, Strftime(req[r1].start)) # {}
          /\ req[r1].mechanic_id = "" \/ req[r2].mechanic_id \in {"", req[r1].mechanic_id}
          /\ OnlyPair(r1, r2, req[r1].date, req[r1].start) )
        => ( /\ \/ Won(r1) /\ Lost(r2)
                \/ Won(r2) /\ Lost(r1)
             /\ Slot(req[r1].date, req[r1].start) = "booked"
             /\ RecordsAt(req[r1].date, req[r1].start) = {req[r1].bid, req[r2].bid} \ {0} )

C1_Witness ==
    \E r1 \in 1..NumReq : \E r2 \in 1..NumReq :
        /\ r1 # r2
        /\ req[r1].pc = "done" /\ req[r1].res = "ok"
        /\ req[r2].pc = "done" /\ req[r2].res = "conflict"
        /\ Targets(r2, req[r1].date, req[r1].start)
        /\ req[r2].mechanic_id = req[r1].mechanic_id

\* C2: at most one booking with status pending or confirmed exists for any
\* (mechanic, slot_start).
C2_OneLiveBookingPerSlot ==
    \A b1 \in 1..Len(bookings) : \A b2 \in 1..Len(bookings) :
        ( /\ b1 # b2
          /\ Live(b1) /\ Live(b2)
          /\ bookings[b1].mechanic_id = bookings[b2].mechanic_id
          /\ bookings[b1].date = bookings[b2].date )
        => bookings[b1].start # bookings[b2].start

\* C3: the create-booking transaction commits only if the day's record shows the
\* requested slot key as free when the transaction runs.
C3_CommitsOnlyIfFree ==
    [][ ( /\ last'.op = "create" /\ last'.res = "ok"
          /\ Len(bookings') = Len(bookings) + 1 )
        => LET b == bookings'[Len(bookings')]
           IN  avail[b.date].exists => Slot(b.date, b.start) = "free" ]_vars

\* C4: an attempt of create_booking is all-or-nothing: either it adds one pending
\* booking and the slot key of that booking is booked in the day's record, or it
\* changes neither the bookings collection nor the availability collection.
C4_AllOrNothing ==
    [][ last'.op \in {"resolve", "create"}
        => \/ /\ bookings' = bookings
              /\ avail' = avail
           \/ /\ Len(bookings') = Len(bookings) + 1
              /\ SubSeq(bookings', 1, Len(bookings)) = bookings
              /\ LET b == bookings'[Len(bookings')]
                 IN  /\ b.status = "pending"
                     /\ MapGet(avail'[b.date].slots, Strftime(b.start)) = "booked"
                     /\ \A d \in Days : d # b.date => avail'[d] = avail[d] ]_vars

C4_Witness ==
    \E r1 \in 1..NumReq : \E r2 \in 1..NumReq :
        /\ req[r1].pc = "done" /\ req[r1].res = "error" /\ req[r1].attempt = MaxAttempts
        /\ req[r2].bid # 0
        /\ SlotOf(req[r2].bid) = "booked"
        /\ last.op = "create" /\ last.res = "error"

\* C5: every booking whose status is pending or confirmed has its slot key marked
\* booked in the day's availability record.
C5_LiveBookingHoldsSlot ==
    \A b \in 1..Len(bookings) : Live(b) => SlotOf(b) = "booked"

\* C6: denying a pending booking whose slot is booked leaves the booking denied
\* and the slot free.
C6_DenyReleases ==
    [][ \A b \in 1..Len(bookings) :
          ( /\ bookings[b].status = "pending"
            /\ SlotOf(b) = "booked"
            /\ last'.op = "deny" /\ last'.b = b /\ last'.res # "forbidden"
            /\ ops' = ops + 1 )
          => ( /\ bookings'[b].status = "denied"
               /\ MapGet(avail'[bookings[b].date].slots, Strftime(bookings[b].start)) = "free" )
      ]_vars

C8_SeedKeepsBooked ==
    [][ last'.op = "seed"
        => \A d \in Days : \A k \in DOMAIN avail[d].slots :
              avail[d].slots[k] = "booked" => MapGet(avail'[d].slots, k) = "booked" ]_vars

C8_Witness ==
    /\ last.op = "seed" /\ last.res = "updated"
    /\ \E k \in DOMAIN avail[last.b].slots : avail[last.b].slots[k] = "booked"

\* The pairs a seeding run has merged so far.
Merged(s) ==
    {i \in 1..NumPairs :
        /\ seed[s].pc \in {"run", "done"}
        /\ ~seed[s].dry_run
        /\ (seed[s].pc = "done" \/ i < seed[s].i)
        /\ ~NoSchedule(PairMech(i), PairDay(i))}

\* C9: with seeding runs and booking requests racing on a day record no update is
\* lost: every committed booking's slot is booked, and every grid key and every
\* mechanic a seeding transaction has merged is in the day's record.
C9_NoLostUpdate ==
    /\ \A b \in 1..Len(bookings) : SlotOf(b) = "booked"
    /\ \A s \in 1..NumSeed : \A i \in Merged(s) :
          LET day_sched == Schedule(PairMech(i), PairDay(i))
              grid == build_slots(day_sched.start, day_sched.end, DefaultGranularity).slots
          IN  /\ avail[PairDay(i)].exists
              /\ PairMech(i) \in avail[PairDay(i)].mechanics
              /\ DOMAIN grid \subseteq DOMAIN avail[PairDay(i)].slots

C9_Witness ==
    /\ \A s \in 1..NumSeed : Cardinality(Merged(s)) >= 2
    /\ NumSeed >= 2
    /\ \E r \in 1..NumReq : req[r].pc = "done" /\ req[r].res = "ok"
    /\ last.op = "seed" /\ last.res = "updated"

\* C10: two create_booking requests for different slot keys of the same day both
\* succeed, both keys end up booked and both booking records exist.
C10_Independent ==
    \A r1 \in 1..NumReq : \A r2 \in 1..NumReq :
        ( /\ req[r1].pc = "done" /\ req[r2].pc = "done"
          /\ req[r1].date # 0
          /\ req[r2].date = req[r1].date
          /\ req[r1].start # req[r2].start
          /\ Contributors(req[r1].date, Strftime(req[r1].start)) # {}
          /\ Contributors(req[r2].date, Strftime(req[r2].start)) # {}
          /\ OnlyPair(r1, r1, req[r1].date, req[r1].start)
          /\ OnlyPair(r2, r2, req[r2].date, req[r2].start) )
        => ( /\ req[r1].res = "ok" /\ req[r2].res = "ok"
             /\ Slot(req[r1].date, req[r1].start) = "booked"
             /\ Slot(req[r2].date, req[r2].start) = "booked"
             /\ RecordsAt(req[r1].date, req[r1].start) = {req[r1].bid}
             /\ RecordsAt(req[r2].date, req[r2].start) = {req[r2].bid} )

C10_Witness ==
    \E r1 \in 1..NumReq : \E r2 \in 1..NumReq :
        /\ req[r1].pc = "done" /\ req[r1].res = "ok"
        /\ req[r2].pc = "done" /\ req[r2].res = "ok"
        /\ req[r1].date = req[r2].date
        /\ req[r1].start # req[r2].start
        /\ req[r1].bid > req[r2].bid
        /\ last.op = "finish"

\* C11: a failure of the calendar call after the booking transaction has committed
\* leaves the booking and its slot reservation as committed, and the create-booking
\* request still reports success.
C11_FollowUpNeverFails ==
    [][ \A r \in 1..NumReq :
          (req[r].pc = "committed" /\ req'[r].pc = "done")
          => /\ Len(bookings') = Len(bookings)
             /\ bookings'[req[r].bid].status = bookings[req[r].bid].status
             /\ avail' = avail
             /\ req'[r].res = "ok" ]_vars

\* A step of request r in which its transaction raised a transient storage error.
FaultStep(r) ==
    /\ req[r].pc = "txn"
    /\ req'[r] # req[r]
    /\ last'.op = "resolve" \/ last'.res = "error"

\* C12: create_booking makes at most 3 attempts on transient storage errors; a
\* retry runs the whole attempt again on the state as it is then; after the third
\* failed attempt the error is surfaced; every request in flight eventually returns.
C12_BoundedRetry ==
    /\ [](\A r \in 1..NumReq :
            /\ req[r].attempt <= MaxAttempts
            /\ req[r].res = "error" => req[r].attempt = MaxAttempts)
    /\ [][ \A r \in 1..NumReq :
             FaultStep(r) =>
               IF req[r].attempt < MaxAttempts
               THEN /\ req'[r].attempt = req[r].attempt + 1
                    /\ bookings' = bookings /\ avail' = avail
                    /\ IF validate_availability(req[r].date, req[r].start) = {}
                       THEN req'[r].pc = "done" /\ req'[r].res = "conflict"
                       ELSE /\ req'[r].pc = "txn"
                            /\ req'[r].mechanic_id \in
                                  validate_availability(req[r].date, req[r].start)
               ELSE /\ req'[r].pc = "done" /\ req'[r].res = "error"
                    /\ bookings' = bookings /\ avail' = avail ]_vars
    /\ \A r \in 1..NumReq : (req[r].pc = "txn") ~> (req[r].pc = "done")

C12_Witness ==
    \E r1 \in 1..NumReq : \E r2 \in 1..NumReq :
        /\ req[r1].pc = "done" /\ req[r1].res = "error" /\ req[r1].attempt = MaxAttempts
        /\ req[r2].pc = "done" /\ req[r2].res = "ok" /\ req[r2].attempt = 2

\* C13: approve_or_deny_booking applied to a booking whose status is cancelled,
\* denied, completed or no-show changes neither that booking's status nor any
\* availability record.
C13_ApprovalNeedsOpenBooking ==
    [][ \A b \in 1..Len(bookings) :
          ( /\ bookings[b].status \in {"cancelled", "denied", "completed", "no-show"}
            /\ last'.op \in {"approve", "deny"} /\ last'.b = b
            /\ ops' = ops + 1 )
          => ( /\ bookings'[b].status = bookings[b].status
               /\ avail' = avail ) ]_vars

\* C14: no lifecycle operation sets the status of an existing booking to pending.
C14_NeverBackToPending ==
    [][ \A b \in 1..Len(bookings) :
          (ops' = ops + 1 /\ bookings[b].status # "pending")
          => bookings'[b].status # "pending" ]_vars

\* C15: cancel_booking by a permitted caller on a booking whose status is cancelled,
\* completed or denied fails with an invalid-state error and leaves the booking
\* records and the availability records unchanged.
C15_CancelNeedsLiveBooking ==
    [][ \A b \in 1..Len(bookings) : \A user \in Users :
          ( /\ Cancel(b, user)
            /\ MayCancel(user, bookings[b])
            /\ bookings[b].status \in {"cancelled", "completed", "denied"} )
          => ( /\ last'.res = "invalid_state"
               /\ bookings' = bookings
               /\ avail' = avail ) ]_vars

C15_Witness ==
    \E b \in 1..Len(bookings) :
        /\ last = [op |-> "cancel", b |-> b, res |-> "invalid_state"]
        /\ bookings[b].status = "cancelled"
        /\ SlotOf(b) = "free"

\* C16: cancel_booking by a caller who is neither the booking's customer nor an
\* administrator fails with a permission error and changes neither the booking
\* records nor the availability records; a cancellation that changes state is made
\* by the customer or an administrator.
C16_CancelNeedsOwnerOrAdmin ==
    [][ \A b \in 1..Len(bookings) : \A user \in Users :
          Cancel(b, user)
          => /\ (Role(user) # "admin" /\ bookings[b].customer # user)
                   => ( /\ last'.res = "forbidden"
                        /\ bookings' = bookings
                        /\ avail' = avail )
             /\ (bookings' # bookings \/ avail' # avail)
                   => (Role(user) = "admin" \/ bookings[b].customer = user) ]_vars

C16_Witness ==
    \E b \in 1..Len(bookings) :
        /\ last = [op |-> "cancel", b |-> b, res |-> "forbidden"]
        /\ bookings[b].status = "pending"
        /\ SlotOf(b) = "booked"

\* C17: request_reschedule modifies no availability record: on success the booking
\* alone changes (status reschedule-requested and the preferred slot), its own slot
\* keeps its value and the preferred slot is not reserved.
C17_RescheduleKeepsAvailability ==
    [][ \A b \in BookingIds : \A preferred \in StartTimes : \A user \in Users :
          RequestReschedule(b, preferred, user)
          => /\ avail' = avail
             /\ last'.res = "ok"
                   => ( /\ bookings'[b].status = "reschedule-requested"
                        /\ bookings'[b].requested = preferred
                        /\ \A c \in 1..Len(bookings) : c # b => bookings'[c] = bookings[c]
                        /\ Len(bookings') = Len(bookings) )
             /\ last'.res # "ok" => bookings' = bookings ]_vars

C17_Witness ==
    \E b \in 1..Len(bookings) :
        /\ last = [op |-> "reschedule", b |-> b, res |-> "ok"]
        /\ bookings[b].status = "reschedule-requested"
        /\ bookings[b].requested # bookings[b].start
        /\ SlotOf(b) = "booked"
        /\ Slot(bookings[b].date, bookings[b].requested) = "free"

\* A step in which the transaction of request r ran, whatever its outcome.
TxnStep(r) == req[r].pc = "txn" /\ req'[r].pc # "txn" /\ last'.op = "create"

C19_ServiceNotFound ==
    [][ \A r \in 1..NumReq : \A date \in Days : \A start \in StartTimes :
        \A zip_ok \in BOOLEAN : \A service \in {"nosuch"} :
          (CreateBegin(r, date, start, service, zip_ok) /\ service \notin Services)
          => ( /\ req'[r].pc = "done" /\ req'[r].res = "not_found"
               /\ bookings' = bookings
               /\ avail' = avail ) ]_vars

\* C19 amended: a create_booking request whose zip is in the service area and whose
\* service_id does not exist fails with ServiceNotFoundError (not found); with a zip
\* outside the service area it fails with a bad request before the service is
\* looked up; either way bookings and availability are unchanged.
C19_ServiceNotFoundAfterArea ==
    [][ \A r \in 1..NumReq : \A date \in Days : \A start \in StartTimes :
        \A zip_ok \in BOOLEAN : \A service \in {"nosuch"} :
          (CreateBegin(r, date, start, service, zip_ok) /\ service \notin Services)
          => ( /\ req'[r].pc = "done"
               /\ req'[r].res = IF zip_ok THEN "not_found" ELSE "bad_request"
               /\ bookings' = bookings
               /\ avail' = avail ) ]_vars

C19_Witness ==
    \E r \in 1..NumReq :
        /\ req[r].pc = "done" /\ req[r].res = "not_found"
        /\ last = [op |-> "resolve", b |-> 0, res |-> "not_found"]
        /\ Len(bookings) = 1

SeededWeek == [d \in Days |-> SeededDoc(d, Len(Mechanics))]

\* C21: re-seeding is idempotent: from the empty store with seeding runs only, once
\* one non-dry run of the week is complete the store holds what that run produced,
\* and no step of a later run changes any day record's slot map or mechanic set.
C21_ReseedIdempotent ==
    [][ (\E s1 \in 1..NumSeed : seed[s1].pc = "done" /\ ~seed[s1].dry_run)
        => avail = SeededWeek /\ avail' = avail ]_vars

C21_Witness ==
    /\ \E s2 \in 1..NumSeed :
          seed[s2].pc = "done" /\ ~seed[s2].dry_run /\ seed[s2].prior >= 1
    /\ last.op = "seed"
    /\ avail = SeededWeek
    /\ \E d \in Days : Cardinality(avail[d].mechanics) >= 2

\* C22: from the empty store, with two non-dry runs of the same week of which the
\* second begins after the first is complete (every other run idle or dry), the
\* first reports created > 0 and the second created = 0 and updated > 0.
C22_SecondRunOnlyUpdates ==
    \A s1, s2 \in 1..NumSeed :
        ( /\ s1 # s2
          /\ seed[s1].pc = "done" /\ ~seed[s1].dry_run /\ seed[s1].prior = 0
          /\ seed[s2].pc = "done" /\ ~seed[s2].dry_run /\ seed[s2].prior = 1
          /\ \A t \in 1..NumSeed \ {s1, s2} : seed[t].pc = "idle" \/ seed[t].dry_run )
        => /\ seed[s1].created > 0
           /\ seed[s2].created = 0
           /\ seed[s2].updated > 0

C22_Witness ==
    \E s1, s2 \in 1..NumSeed :
        /\ seed[s1].pc = "done" /\ ~seed[s1].dry_run /\ seed[s1].prior = 0
        /\ seed[s1].created = NumDays
        /\ seed[s2].pc = "done" /\ ~seed[s2].dry_run /\ seed[s2].prior = 1
        /\ seed[s2].created = 0 /\ seed[s2].updated >= 2

\* C23: a transient storage error in a pair's merge transaction has only that pair
\* retried: the run stays at the same pair with the counts of the pairs already
\* committed, and on exhaustion the caller gets the storage error itself.
C23_OnlyPairRetried ==
    [][ \A s \in 1..NumSeed :
          SeedFault(s)
          => /\ seed'[s].pc = "run"
                => /\ seed'[s].i = seed[s].i
                   /\ seed'[s].created = seed[s].created
                   /\ seed'[s].updated = seed[s].updated
                   /\ seed'[s].skipped = seed[s].skipped
             /\ seed'[s].pc = "failed" => last'.res = "ServiceUnavailable" ]_vars

\* C24: a dry run performs no storage mutation: no loop iteration of a dry run
\* changes the availability collection, and the run reports every pair skipped.
C24_DryRunNoMutation ==
    /\ [][ \A s \in 1..NumSeed : (SeedStep(s) /\ seed[s].dry_run) => avail' = avail ]_vars
    /\ [](\A s \in 1..NumSeed :
            (seed[s].pc = "done" /\ seed[s].dry_run)
            => seed[s].created = 0 /\ seed[s].updated = 0 /\ seed[s].skipped = NumPairs)

C24_Witness ==
    \E s \in 1..NumSeed :
        /\ seed[s].pc = "done" /\ seed[s].dry_run /\ seed[s].skipped = NumPairs
        /\ \A d \in Days : ~avail[d].exists
        /\ \A t \in 1..NumSeed \ {s} : seed[t].pc = "idle"

\* The pairs whose schedule entry is absent or incomplete.
Unscheduled == {i \in 1..NumPairs : NoSchedule(PairMech(i), PairDay(i))}

\* C25: after a complete non-dry run every mechanic with a complete schedule
\* entry for a day is in that day's mechanic set, booked keys or not; a mechanic
\* with an absent or incomplete entry is not, and its pair is counted as skipped.
C25_MechanicSetAfterSeed ==
    \A s \in 1..NumSeed :
        (seed[s].pc = "done" /\ ~seed[s].dry_run)
        => /\ \A i \in 1..NumPairs :
                 IF i \in Unscheduled
                 THEN PairMech(i) \notin avail[PairDay(i)].mechanics
                 ELSE PairMech(i) \in avail[PairDay(i)].mechanics
           /\ seed[s].skipped = Cardinality(Unscheduled)

C25_Witness ==
    \E s \in 1..NumSeed :
        /\ seed[s].pc = "done" /\ ~seed[s].dry_run /\ seed[s].skipped >= 1
        /\ seed[s].updated >= 1
        /\ avail[1].mechanics = {"m1", "m2"}
        /\ MapGet(avail[1].slots, Strftime(540)) = "booked"
        /\ MapGet(avail[1].slots, Strftime(570)) = "booked"

\* The slot grid of a mechanic's schedule entry for a day; empty without an entry.
Grid(mech, day) ==
    IF NoSchedule(mech, day) THEN {}
    ELSE DOMAIN build_slots(Schedule(mech, day).start, Schedule(mech, day).end,
                            DefaultGranularity).slots

\* C26: every slot key of a day record is in the slot grid of the schedule of a
\* mechanic in that day's mechanic set.
C26_KeysFromContributors ==
    \A d \in Days : \A k \in DOMAIN avail[d].slots :
        \E m \in avail[d].mechanics : k \in Grid(m, d)

\* Every slot key of a day record is in the slot grid of some active mechanic.
KeysFromSchedules ==
    \A d \in Days : \A k \in DOMAIN avail[d].slots :
        \E m \in MechanicIds : k \in Grid(m, d)

\* A well-formed zero-padded 24-hour HH:MM string.
WellFormed(t) ==
    /\ Len(t) = 5
    /\ IsDigit(t[1]) /\ IsDigit(t[2]) /\ t[3] = ":" /\ IsDigit(t[4]) /\ IsDigit(t[5])
    /\ 10 * DigitVal(t[1]) + DigitVal(t[2]) <= 23
    /\ 10 * DigitVal(t[4]) + DigitVal(t[5]) <= 59

\* The minutes since midnight a well-formed string stands for.
Minutes(t) ==
    60 * (10 * DigitVal(t[1]) + DigitVal(t[2])) + 10 * DigitVal(t[4]) + DigitVal(t[5])

\* The HH:MM string of a time of day given in minutes.
Key(m) ==
    <<Digits[(m \div 600) + 1], Digits[((m \div 60) % 10) + 1], ":",
      Digits[((m % 60) \div 10) + 1], Digits[(m % 10) + 1]>>

C28_DefaultGranularity30 ==
    ( /\ call.made /\ ~call.given
      /\ call.start_time = <<"0", "8", ":", "0", "0">>
      /\ call.end_time = <<"1", "7", ":", "0", "0">> )
    => /\ call.ok
       /\ DOMAIN call.slots = {Key(480 + 30 * k) : k \in 0..17}
       /\ \A key \in DOMAIN call.slots : call.slots[key] = "free"

\* C29: build_slots fails with a validation error and returns no grid whenever end
\* is not strictly after start: for end before start and for end equal to start.
C29_EndNotAfterStart ==
    ( /\ call.made
      /\ WellFormed(call.start_time) /\ WellFormed(call.end_time)
      /\ Minutes(call.end_time) <= Minutes(call.start_time) )
    => (~call.ok /\ call.slots = EmptyMap)

C29_Witness ==
    /\ call.made /\ ~call.ok
    /\ call.start_time = <<"0", "9", ":", "0", "0">>
    /\ call.end_time = call.start_time

\* C30: build_slots fails with a validation error whenever either time string is
\* not a well-formed zero-padded 24-hour HH:MM string, a missing leading zero (9:00)
\* and an out-of-range hour (24:00) included.
C30_MalformedRejected ==
    ( /\ call.made
      /\ ~WellFormed(call.start_time) \/ ~WellFormed(call.end_time) )
    => ~call.ok

\* The bookings other than b with status pending or confirmed on the date and
\* slot key.
OtherHolders(b, d, k) ==
    {b2 \in 1..Len(bookings) :
        /\ b2 # b
        /\ Live(b2)
        /\ bookings[b2].date = d
        /\ Strftime(bookings[b2].start) = k}

\* C31: a deny or a cancel of booking b never changes a slot key from booked to
\* free while a different booking with status pending or confirmed has that date
\* and start time.
C31_FreesOnlyOwnSlot ==
    [][ (last'.op \in {"deny", "cancel"} /\ ops' = ops + 1)
        => \A d \in Days : \A k \in DOMAIN avail[d].slots :
              (avail[d].slots[k] = "booked" /\ MapGet(avail'[d].slots, k) = "free")
              => OtherHolders(last'.b, d, k) = {} ]_vars

\* The store InitReopened starts from: a first booking cancelled, its slot free.
ReopenedReached ==
    /\ Len(bookings) = 1
    /\ bookings[1].status = "cancelled"
    /\ bookings[1].start = 540 /\ bookings[1].mechanic_id = "m1"
    /\ bookings[1].customer = "alice"
    /\ avail = [d \in Days |-> SeededDoc(d, Len(Mechanics))]

\* The document operations the transaction of a handler step issued, up to the one
\* that ended it: a transaction that returns or raises after its first read issued
\* that read alone.
Issued(step) ==
    IF step.op = "create"
    THEN IF step.res = "ok" THEN txn ELSE SubSeq(txn, 1, 2)
    ELSE IF step.op = "seed" /\ step.res \in {"created", "updated"}
    THEN update_availability_in_transaction_ops
    ELSE IF step.op \in {"approve", "deny"} /\ step.res \in {"ok", "error"}
    THEN update_approval_txn(step.op = "approve")
    ELSE IF step.op = "cancel" /\ step.res \in {"ok", "error"}
    THEN cancel_booking_txn
    ELSE IF step.op = "reschedule" /\ step.res = "ok"
    THEN request_reschedule_txn_ops
    ELSE IF step.op = "patch" /\ step.res = "ok"
    THEN update_status_txn
    ELSE IF step.op \in {"approve", "deny", "cancel", "reschedule", "patch"}
            /\ step.res \in {"not_found", "invalid_state"}
    THEN <<"read">>
    ELSE << >>

\* C32: in every transaction (create-booking, seed merge, approve/deny, cancel,
\* request-reschedule, status patch) all document reads are issued before the
\* transaction's first write.
C32_ReadsBeforeWrites == ~ReadAfterWrite(Issued(last))

\* C33: a create_booking call whose transaction committed returns the booking as a
\* success, also when the read-back of the booking hits a transient storage error.
C33_CommittedIsSuccess ==
    \A r \in 1..NumReq :
        (req[r].pc = "done" /\ req[r].bid # 0) => req[r].res = "ok"

\* C34: every slot key marked booked in a day record is held by at least one
\* booking with that date and start time whose status is pending, confirmed or
\* reschedule-requested.
C34_BookedSlotHeld ==
    \A d \in Days : \A k \in DOMAIN avail[d].slots :
        avail[d].slots[k] = "booked"
        => \E b \in 1..Len(bookings) :
              /\ bookings[b].date = d
              /\ Strftime(bookings[b].start) = k
              /\ bookings[b].status \in {"pending", "confirmed", "reschedule-requested"}

\* C35: no two bookings with status pending or confirmed for the same mechanic
\* have overlapping [slot_start, slot_end) intervals.
C35_NoOverlap ==
    \A b1 \in 1..Len(bookings) : \A b2 \in 1..Len(bookings) :
        ( /\ b1 # b2
          /\ Live(b1) /\ Live(b2)
          /\ bookings[b1].mechanic_id = bookings[b2].mechanic_id
          /\ bookings[b1].date = bookings[b2].date )
        => ~( /\ bookings[b1].start < bookings[b2].slot_end
              /\ bookings[b2].start < bookings[b1].slot_end )

\* C36: of two cancel_booking requests on the same pending or confirmed booking,
\* in either order, the one served first commits (status cancelled, the slot
\* changed from booked to free) and the one served second fails with the
\* invalid-state error and changes nothing, so the slot is freed once.
C36_CancelOnce ==
    [][ \A b \in 1..Len(bookings) : \A user \in Users :
          (Cancel(b, user) /\ MayCancel(user, bookings[b]))
          => /\ bookings[b].status \in {"pending", "confirmed"}
                => ( /\ last'.res = "ok"
                     /\ bookings'[b].status = "cancelled"
                     /\ MapGet(avail'[bookings[b].date].slots, SlotKey(bookings[b]))
                           = IF SlotOf(b) = "booked" THEN "free" ELSE SlotOf(b) )
             /\ bookings[b].status = "cancelled"
                => ( /\ last'.res = "invalid_state"
                     /\ bookings' = bookings
                     /\ avail' = avail ) ]_vars

C36_Witness ==
    \E b \in 1..Len(bookings) :
        /\ ops = 2
        /\ Len(bookings) = 1
        /\ last = [op |-> "cancel", b |-> b, res |-> "invalid_state"]
        /\ bookings[b].status = "cancelled"
        /\ SlotOf(b) = "free"
        /\ \A r \in 1..NumReq : req[r].pc \in {"idle", "done"}

\* C37: the created and updated counts a seeding run returns equal the numbers of
\* its merge transactions that created, respectively updated, a day record, also
\* when a transient error caused a retry.
C37_CountsMatchTransactions ==
    \A s \in 1..NumSeed :
        seed[s].pc = "done"
        => /\ seed[s].created = seed[s].txn_created
           /\ seed[s].updated = seed[s].txn_updated

\* C39: each booking's status is one of the seven lifecycle values.
C39_StatusInEnum ==
    \A b \in 1..Len(bookings) : bookings[b].status \in BookingStatus

\* C38: a notification job or a calendar-event deletion is scheduled only by a
\* handler step that follows the commit of the booking's transaction; a request
\* that fails (not found, permission, invalid state, SlotUnavailable, bad request,
\* error) schedules none.
C38_TasksAfterCommit ==
    /\ last.res \in {"not_found", "forbidden", "invalid_state", "conflict",
                     "bad_request", "error"}
          => scheduled = {}
    /\ \A t \in scheduled :
          /\ t.b = last.b
          /\ t.b \in 1..Len(bookings)
          /\ t.kind \in {"created", "approval", "denial", "cancellation",
                         "reschedule_request", "delete_event"}
          /\ t.kind = "created"
                => /\ last.op = "finish"
                   /\ \E r \in 1..NumReq :
                         req[r].pc = "done" /\ req[r].bid = t.b /\ req[r].res = "ok"
          /\ t.kind = "approval"
                => last = [op |-> "approve", b |-> t.b, res |-> "ok"]
                   /\ bookings[t.b].status = "confirmed"
          /\ t.kind = "denial"
                => last = [op |-> "deny", b |-> t.b, res |-> "ok"]
                   /\ bookings[t.b].status = "denied"
          /\ t.kind = "cancellation"
                => last = [op |-> "cancel", b |-> t.b, res |-> "ok"]
                   /\ bookings[t.b].status = "cancelled"
          /\ t.kind = "reschedule_request"
                => last = [op |-> "reschedule", b |-> t.b, res |-> "ok"]
                   /\ bookings[t.b].status = "reschedule-requested"
          /\ t.kind = "delete_event"
                => /\ last.op \in {"cancel", "deny"} /\ last.res = "ok"
                   /\ bookings[t.b].status \in {"cancelled", "denied"}
                   /\ bookings[t.b].calendar_event_id

C38_Witness ==
    \E b \in 1..Len(bookings) :
        /\ scheduled = {[kind |-> "delete_event", b |-> b], [kind |-> "cancellation", b |-> b]}
        /\ last = [op |-> "cancel", b |-> b, res |-> "ok"]
        /\ ops = 2

====
